---- MODULE Spec2Model ----
(***************************************************************************)
(* Model of the mbox append synchronisation engine of                      *)
(* src/lib-index/mbox/mbox-append.c: the boundary scanner                   *)
(* (mbox_read_message), the Message Transaction (mbox_index_append_next)    *)
(* and the Append Driver (mbox_index_append), over an IOBuffer whose        *)
(* refills are chosen nondeterministically and an index whose storage      *)
(* operations may fail.                                                     *)
(***************************************************************************)
EXTENDS Integers, Sequences, FiniteSets, TLC

(* ------------------------------------------------------------------ *)
(* Bounds of the model                                                  *)
(* ------------------------------------------------------------------ *)
\* number of pieces (separator lines, body bytes) written to the mailbox
MaxTokens == 3
\* number of pieces of a message body given to the boundary scanner alone
MaxScanTokens == 5
\* a non-zero IOBuffer start_offset (the buffer begins inside the file)
BaseOffset == 3

(* ------------------------------------------------------------------ *)
(* Bytes and stream contents                                            *)
(* ------------------------------------------------------------------ *)
LF == "LF"
CR == "CR"
SP == "SP"

\* "From \n": a separator line without a timestamp
FromA == <<"F", "r", "o", "m", SP, LF>>
\* "From 1\n": a separator line whose timestamp parses
FromD == <<"F", "r", "o", "m", SP, "1", LF>>
\* "From ": the start of a separator line whose end is not written yet
FromW == <<"F", "r", "o", "m", SP>>
\* the pieces the mailbox is written in
Tokens == {FromA, FromD, FromW, <<"x">>, <<LF>>, <<CR>>}
\* the pieces message bodies given to the boundary scanner are made of
ScanTokens == {FromW, <<"x">>, <<LF>>, <<CR>>, <<SP>>}

RECURSIVE Flatten(_)
Flatten(ts) == IF ts = <<>> THEN <<>> ELSE Head(ts) \o Flatten(Tail(ts))

Min(S) == CHOOSE m \in S : \A n \in S : m <= n

(* ------------------------------------------------------------------ *)
(* Program constants                                                    *)
(* ------------------------------------------------------------------ *)
MAIL_INDEX_FLAG_FSCK == "FSCK"
MAIL_LOCK_UNLOCK == "unlock"
MAIL_LOCK_EXCLUSIVE == "exclusive"
\* the current time the caller's ioloop supplies
ioloop_time == 5

NoError == "none"
ErrFromLine == "From-line not found where expected"
ErrLF == "LF not found where expected"


(* ------------------------------------------------------------------ *)
(* State                                                                *)
(* ------------------------------------------------------------------ *)
VARIABLES
  stream,      \* the mailbox bytes from the buffer's start_offset on
  ntok,        \* number of pieces the mailbox was written in
  inbuf,       \* IOBuffer: start_offset, offset (cursor), size (ceiling), buffered
  index,       \* MailIndex: records, next_uid, set_flags, error, lock
  update,      \* the MailIndexUpdate opened by update_begin
  ctx,         \* MboxHeaderContext of the running Message Transaction
  tx,          \* locals of mbox_index_append_next
  rm,          \* locals of mbox_read_message
  pc,          \* position of the running mbox_index_append call
  ret,         \* value the last call returned
  exit_path,   \* the return statement the last call left through
  entry,       \* index and buffer as they were when the running call was
               \* entered, and whether every earlier call returned success
  lock_calls   \* number of set_lock invocations of the running call

vars == <<stream, ntok, inbuf, index, update, ctx, tx, rm, pc, ret, exit_path,
          entry, lock_calls>>

(* ------------------------------------------------------------------ *)
(* IOBuffer                                                             *)
(* ------------------------------------------------------------------ *)
\* the buffered, unread bytes: data[0] is the byte at the cursor
io_buffer_get_data(b) == SubSeq(stream, b.offset + 1, b.offset + b.buffered)

io_buffer_skip(b, n) ==
  [b EXCEPT !.offset = @ + n,
            !.buffered = IF n <= @ THEN @ - n ELSE 0]

io_buffer_seek(b, off) == [b EXCEPT !.offset = off, !.buffered = 0]

\* The outcomes of io_buffer_read_data(b, .., threshold): the number of bytes
\* buffered afterwards, or -1 at end of data.  When more than threshold bytes
\* are buffered nothing is read; otherwise a refill brings any number (at
\* least one) of the bytes left below the ceiling.
io_buffer_read_data(b, threshold) ==
  IF b.buffered > threshold THEN {b.buffered}
  ELSE IF b.offset + b.buffered >= b.size THEN {-1}
  ELSE (b.buffered + 1)..(b.size - b.offset)

Buffered(b, n) == [b EXCEPT !.buffered = n]

(* ------------------------------------------------------------------ *)
(* mbox_read_message: the pure parts                                    *)
(* ------------------------------------------------------------------ *)
\* msg[i] of the C code is msg[i + 1] here
At(msg, i) == msg[i + 1]

\* "\nFrom " ends at the space msg[i]
IsFromSpace(msg, i) ==
  /\ At(msg, i) = SP /\ i >= 5
  /\ At(msg, i - 5) = LF /\ At(msg, i - 4) = "F" /\ At(msg, i - 3) = "r"
  /\ At(msg, i - 2) = "o" /\ At(msg, i - 1) = "m"

\* ScanPass without the step back over the \r before "\nFrom "
ScanPass_KeepsCR(msg, size, startpos) ==
  LET hits == {i \in startpos..(size - 1) : IsFromSpace(msg, i)}
  IN IF hits = {} THEN size ELSE Min(hits) - 5

\* the for loop of one pass: the value of i when it ends
ScanPass(msg, size, startpos) ==
  LET hits == {i \in startpos..(size - 1) : IsFromSpace(msg, i)}
  IN IF hits = {} THEN size
     ELSE LET i == Min(hits) - 5
          IN IF i > 0 /\ At(msg, i - 1) = CR THEN i - 1 ELSE i

\* Retain keeping only the length of the literal "From "
Retain_FromLength(i) == IF i < 5 THEN i ELSE 5

\* the bytes kept buffered after a pass that found nothing
Retain(i) == IF i < 7 THEN i ELSE 7

\* end of file, remove the last [\r]\n
TrimLast(msg, size, startpos) ==
  IF size = startpos
  THEN LET s1 == IF At(msg, startpos - 1) = LF THEN startpos - 1 ELSE startpos
       IN IF s1 > 0 /\ At(msg, s1 - 1) = CR THEN s1 - 1 ELSE s1
  ELSE startpos

(* ------------------------------------------------------------------ *)
(* mbox_index_append_next: the pure parts                               *)
(* ------------------------------------------------------------------ *)
FromLit == <<"F", "r", "o", "m", SP>>

\* the for loop looking for the end of the From-line: the value of pos
FindLF(data, size, pos) ==
  Min({p \in pos..(size - 1) : At(data, p) = LF} \cup {size})

\* FromLineNotFound without the test for a missing \n
FromLineNotFound_IgnoresMissingLF(data, size, pos) ==
  size <= 5 \/ SubSeq(data, 1, 5) # FromLit

\* a) no \n found, or line too long  b) not a From-line
FromLineNotFound(data, size, pos) ==
  pos = size \/ size <= 5 \/ SubSeq(data, 1, 5) # FromLit

\* The separator parser: the date of the line that starts data, or -1 when
\* the line carries none that parses.
mbox_from_parse_date(data, size) ==
  LET eol == FindLF(data, size, 0)
  IN IF \E p \in 5..(eol - 1) : At(data, p) = "1" THEN 1 ELSE -1

\* InternalDate without the fallback to the current time
InternalDate_NoFallback(parsed) == parsed


InternalDate(parsed) == IF parsed <= 0 THEN ioloop_time ELSE parsed

\* What the header collaborator derives from the narrowed range.
HeaderFlags(bytes) ==
  IF \E k \in 1..Len(bytes) : bytes[k] = "x" THEN {"SEEN"} ELSE {}

md5_final(bytes) == <<"md5">> \o bytes

NoField == -1
NoDigest == <<>>

NewRecord(date) ==
  [internal_date |-> date, location |-> NoField, md5 |-> NoDigest,
   msg_flags |-> {}, uid |-> 0,
   \* bookkeeping: the uid append returned for it, and the steps the
   \* transaction has completed on it, in order
   append_uid |-> index.next_uid, log |-> <<>>]

NoUpdate == [rec |-> 0, location |-> NoField, md5 |-> NoDigest]
NoCtx == [state |-> "none", flags |-> {}, md5 |-> <<>>]
NoTx == [pos |-> 0, size |-> 0, internal_date |-> 0, abs_start_offset |-> 0,
         stop_offset |-> 0, old_size |-> 0, rec |-> 0, uid |-> 0,
         failed |-> FALSE]
NoRm == [startpos |-> 0, lastmsg |-> TRUE]

(* ------------------------------------------------------------------ *)
(* Initial state                                                        *)
(* ------------------------------------------------------------------ *)
Init ==
  /\ stream = <<>>
  /\ ntok = 0
  /\ \E so \in {0, BaseOffset} :
       inbuf = [start_offset |-> so, offset |-> 0, size |-> Len(stream),
                buffered |-> 0]
  /\ index = [records |-> <<>>, next_uid |-> 1, set_flags |-> {},
              error |-> NoError, lock |-> MAIL_LOCK_UNLOCK]
  /\ update = NoUpdate
  /\ ctx = NoCtx
  /\ tx = NoTx
  /\ rm = NoRm
  /\ pc = "idle"
  /\ ret = TRUE
  /\ exit_path = "none"
  /\ entry = [index |-> index, offset |-> 0, size |-> Len(stream),
              clean |-> TRUE]
  /\ lock_calls = 0

\* return from mbox_index_append
Return(value, path) ==
  /\ pc' = "done"
  /\ ret' = value
  /\ exit_path' = path

\* index_set_error(...); index->set_flags |= MAIL_INDEX_FLAG_FSCK
SetErrorFsck(ix, msg) ==
  [ix EXCEPT !.error = msg, !.set_flags = @ \cup {MAIL_INDEX_FLAG_FSCK}]

(* ------------------------------------------------------------------ *)
(* mbox_index_append: the Append Driver                                 *)
(* ------------------------------------------------------------------ *)
\* Call rewinding the stream to its start before the loop
Call_Rewinds ==
  /\ pc = "idle"
  /\ entry' = [index |-> index, offset |-> inbuf.offset, size |-> inbuf.size,
               clean |-> entry.clean]
  /\ IF inbuf.offset = inbuf.size
     THEN /\ Return(TRUE, "nodata")
          /\ UNCHANGED <<index, lock_calls, inbuf>>
     ELSE /\ lock_calls' = lock_calls + 1
          /\ \E ok \in BOOLEAN :
               IF ok
               THEN /\ index' = [index EXCEPT !.lock = MAIL_LOCK_EXCLUSIVE]
                    /\ inbuf' = io_buffer_seek(inbuf, 0)
                    /\ pc' = "loop"
                    /\ UNCHANGED <<ret, exit_path>>
               ELSE /\ Return(FALSE, "lock")
                    /\ UNCHANGED <<index, inbuf>>
  /\ UNCHANGED <<stream, ntok, update, ctx, tx, rm>>

\* Call going on into the loop when set_lock failed
Call_IgnoresLockFailure ==
  /\ pc = "idle"
  /\ entry' = [index |-> index, offset |-> inbuf.offset, size |-> inbuf.size,
               clean |-> entry.clean]
  /\ IF inbuf.offset = inbuf.size
     THEN /\ Return(TRUE, "nodata")
          /\ UNCHANGED <<index, lock_calls>>
     ELSE /\ lock_calls' = lock_calls + 1
          /\ \E ok \in BOOLEAN :
               index' = IF ok THEN [index EXCEPT !.lock = MAIL_LOCK_EXCLUSIVE]
                        ELSE index
          /\ pc' = "loop"
          /\ UNCHANGED <<ret, exit_path>>
  /\ UNCHANGED <<stream, ntok, inbuf, update, ctx, tx, rm>>

\* Call with the lock taken before the test for new data
Call_LocksFirst ==
  /\ pc = "idle"
  /\ entry' = [index |-> index, offset |-> inbuf.offset, size |-> inbuf.size,
               clean |-> entry.clean]
  /\ lock_calls' = lock_calls + 1
  /\ \E ok \in BOOLEAN :
       IF ~ok
       THEN /\ Return(FALSE, "lock")
            /\ UNCHANGED index
       ELSE /\ index' = [index EXCEPT !.lock = MAIL_LOCK_EXCLUSIVE]
            /\ IF inbuf.offset = inbuf.size
               THEN Return(TRUE, "nodata")
               ELSE /\ pc' = "loop"
                    /\ UNCHANGED <<ret, exit_path>>
  /\ UNCHANGED <<stream, ntok, inbuf, update, ctx, tx, rm>>

\* entry: the no-new-data fast path, then set_lock
Call ==
  /\ pc = "idle"
  /\ entry' = [index |-> index, offset |-> inbuf.offset, size |-> inbuf.size,
               clean |-> entry.clean]
  /\ IF inbuf.offset = inbuf.size
     THEN /\ Return(TRUE, "nodata")
          /\ UNCHANGED <<index, lock_calls>>
     ELSE /\ lock_calls' = lock_calls + 1
          /\ \E ok \in BOOLEAN :
               IF ok
               THEN /\ index' = [index EXCEPT !.lock = MAIL_LOCK_EXCLUSIVE]
                    /\ pc' = "loop"
                    /\ UNCHANGED <<ret, exit_path>>
               ELSE /\ Return(FALSE, "lock")
                    /\ UNCHANGED index
  /\ UNCHANGED <<stream, ntok, inbuf, update, ctx, tx, rm>>

\* mbox_skip_crlf: skip the [\r]\n at the cursor.  Its outcomes: whether it
\* succeeded, and the buffer afterwards.  It fails when the bytes at the
\* cursor are no line terminator; at end of data nothing is skipped and the
\* skip succeeds.  For a CR that the end of data follows nothing is skipped,
\* and either result is possible.
SkipResult(ok, b) == [ok |-> ok, buf |-> b]

mbox_skip_crlf(b) ==
  UNION {
    IF n1 = -1 THEN {SkipResult(TRUE, b)}
    ELSE IF At(io_buffer_get_data(Buffered(b, n1)), 0) = LF
    THEN {SkipResult(TRUE, io_buffer_skip(Buffered(b, n1), 1))}
    ELSE IF At(io_buffer_get_data(Buffered(b, n1)), 0) # CR
    THEN {SkipResult(FALSE, Buffered(b, n1))}
    ELSE UNION {
      IF n2 = -1 THEN {SkipResult(TRUE, Buffered(b, n1)),
                       SkipResult(FALSE, Buffered(b, n1))}
      ELSE IF At(io_buffer_get_data(Buffered(b, n2)), 1) # LF
      THEN {SkipResult(FALSE, Buffered(b, n2))}
      ELSE {SkipResult(TRUE, io_buffer_skip(Buffered(b, n2), 2))}
      : n2 \in io_buffer_read_data(Buffered(b, n1), 1)}
    : n1 \in io_buffer_read_data(b, 0)}

\* LoopSkip going on when mbox_skip_crlf failed
LoopSkip_IgnoresFailure ==
  /\ pc = "loop"
  /\ IF inbuf.start_offset + inbuf.offset # 0
     THEN \E r \in mbox_skip_crlf(inbuf) :
            /\ inbuf' = r.buf
            /\ pc' = "loop_check"
            /\ UNCHANGED <<index, ret, exit_path>>
     ELSE /\ pc' = "loop_check"
          /\ UNCHANGED <<inbuf, index, ret, exit_path>>
  /\ UNCHANGED <<stream, ntok, update, ctx, tx, rm, entry, lock_calls>>

\* top of the for (;;) loop: skip the [\r]\n before the From-line
LoopSkip ==
  /\ pc = "loop"
  /\ IF inbuf.start_offset + inbuf.offset # 0
     THEN \E r \in mbox_skip_crlf(inbuf) :
            /\ inbuf' = r.buf
            /\ IF r.ok
               THEN /\ pc' = "loop_check"
                    /\ UNCHANGED <<index, ret, exit_path>>
               ELSE /\ index' = SetErrorFsck(index, ErrLF)
                    /\ Return(FALSE, "crlf")
     ELSE /\ pc' = "loop_check"
          /\ UNCHANGED <<inbuf, index, ret, exit_path>>
  /\ UNCHANGED <<stream, ntok, update, ctx, tx, rm, entry, lock_calls>>

\* if (inbuf->offset == inbuf->size) break; else mbox_index_append_next
LoopCheck ==
  /\ pc = "loop_check"
  /\ IF inbuf.offset = inbuf.size
     THEN /\ Return(TRUE, "ok")
          /\ UNCHANGED tx
     ELSE /\ pc' = "from_line"
          /\ tx' = [tx EXCEPT !.pos = 0]
          /\ UNCHANGED <<ret, exit_path>>
  /\ UNCHANGED <<stream, ntok, inbuf, index, update, ctx, rm, entry,
                 lock_calls>>

\* the caller's cleanup after the call returned: the lock is released and
\* what belonged to the call (its locals, its result) is gone.  The buffer's
\* lookahead is dropped: whatever a later call could find buffered, its
\* first refill can bring as well.
CallerCleanup ==
  /\ pc = "done"
  /\ pc' = "idle"
  /\ index' = [index EXCEPT !.lock = MAIL_LOCK_UNLOCK]
  /\ lock_calls' = 0
  /\ inbuf' = Buffered(inbuf, 0)
  /\ update' = NoUpdate
  /\ ctx' = NoCtx
  /\ tx' = NoTx
  /\ rm' = NoRm
  /\ ret' = TRUE
  /\ exit_path' = "none"
  /\ entry' = [index |-> index', offset |-> inbuf.offset, size |-> inbuf.size,
               clean |-> entry.clean /\ ret]
  /\ UNCHANGED <<stream, ntok>>

\* the mailbox grows between two calls: bytes are appended to the file
Grow ==
  /\ pc = "idle"
  /\ ntok < MaxTokens
  /\ \E t \in Tokens :
       /\ stream' = stream \o t
       /\ inbuf' = [inbuf EXCEPT !.size = Len(stream \o t)]
       /\ entry' = [entry EXCEPT !.size = Len(stream \o t)]
  /\ ntok' = ntok + 1
  /\ UNCHANGED <<index, update, ctx, tx, rm, pc, ret, exit_path, lock_calls>>

(* ------------------------------------------------------------------ *)
(* mbox_index_append_next: the Message Transaction                      *)
(* ------------------------------------------------------------------ *)
\* get the From-line: one turn of the while loop.  When io_buffer_read_data
\* reports the end of data it either leaves *size as it was or clears it.
FromLinePass ==
  /\ pc = "from_line"
  /\ \E n \in io_buffer_read_data(inbuf, tx.pos) :
       IF n = -1
       THEN /\ \E sz \in {0, tx.size} : tx' = [tx EXCEPT !.size = sz]
            /\ pc' = "from_check"
            /\ UNCHANGED inbuf
       ELSE LET b == Buffered(inbuf, n)
                p == FindLF(io_buffer_get_data(b), n, tx.pos)
            IN /\ inbuf' = b
               /\ tx' = [tx EXCEPT !.size = n, !.pos = p]
               /\ pc' = IF p < n THEN "from_check" ELSE "from_line"
  /\ UNCHANGED <<stream, ntok, index, update, ctx, rm, ret, exit_path,
                 entry, lock_calls>>

\* FromLineCheck with the failure not returned: the driver loop goes on
FromLineCheck_FailureContinues ==
  /\ pc = "from_check"
  /\ LET data == io_buffer_get_data(inbuf)
     IN IF FromLineNotFound(data, tx.size, tx.pos)
        THEN /\ index' = SetErrorFsck(index, ErrFromLine)
             /\ pc' = "loop"
             /\ tx' = [tx EXCEPT !.pos = 0, !.size = 0]
             /\ UNCHANGED <<inbuf, rm, ret, exit_path>>
        ELSE LET b == io_buffer_skip(inbuf, tx.pos + 1)
             IN /\ inbuf' = b
                /\ tx' = [tx EXCEPT
                            !.pos = 0, !.size = 0,
                            !.internal_date =
                               InternalDate(mbox_from_parse_date(data, tx.size)),
                            !.abs_start_offset = b.start_offset + b.offset]
                /\ rm' = NoRm
                /\ pc' = "scan"
                /\ UNCHANGED <<index, ret, exit_path>>
  /\ UNCHANGED <<stream, ntok, update, ctx, entry, lock_calls>>

\* check the From-line, parse its date, skip it
FromLineCheck ==
  /\ pc = "from_check"
  /\ LET data == io_buffer_get_data(inbuf)
     IN IF FromLineNotFound(data, tx.size, tx.pos)
        THEN /\ index' = SetErrorFsck(index, ErrFromLine)
             /\ Return(FALSE, "fromline")
             /\ tx' = [tx EXCEPT !.pos = 0, !.size = 0]
             /\ UNCHANGED <<inbuf, rm>>
        ELSE LET b == io_buffer_skip(inbuf, tx.pos + 1)
             IN /\ inbuf' = b
                /\ tx' = [tx EXCEPT
                            !.pos = 0, !.size = 0,
                            !.internal_date =
                               InternalDate(mbox_from_parse_date(data, tx.size)),
                            !.abs_start_offset = b.start_offset + b.offset]
                /\ rm' = NoRm
                /\ pc' = "scan"
                /\ UNCHANGED <<index, ret, exit_path>>
  /\ UNCHANGED <<stream, ntok, update, ctx, entry, lock_calls>>

\* mbox_read_message: one turn of the while loop
ReadMessagePass ==
  /\ pc = "scan"
  /\ \E n \in io_buffer_read_data(inbuf, rm.startpos) :
       IF n = -1
       THEN /\ pc' = "scan_end"
            /\ UNCHANGED <<inbuf, rm>>
       ELSE LET b == Buffered(inbuf, n)
                i == ScanPass(io_buffer_get_data(b), n, rm.startpos)
            IN IF i < n
               THEN /\ rm' = [startpos |-> i, lastmsg |-> FALSE]
                    /\ inbuf' = b
                    /\ pc' = "scan_end"
               ELSE IF i > 0
               THEN /\ rm' = [rm EXCEPT !.startpos = Retain(i)]
                    /\ inbuf' = io_buffer_skip(b, i - Retain(i))
                    /\ pc' = "scan"
               ELSE /\ inbuf' = b
                    /\ UNCHANGED <<rm, pc>>
  /\ UNCHANGED <<stream, ntok, index, update, ctx, tx, ret, exit_path,
                 entry, lock_calls>>

\* mbox_read_message after the loop, and stop_offset = inbuf->offset
ReadMessageEnd ==
  /\ pc = "scan_end"
  /\ LET data == io_buffer_get_data(inbuf)
         sp == IF rm.lastmsg /\ rm.startpos > 0
               THEN TrimLast(data, inbuf.buffered, rm.startpos)
               ELSE rm.startpos
         b == io_buffer_skip(inbuf, sp)
     IN /\ rm' = NoRm
        /\ inbuf' = b
        /\ tx' = [tx EXCEPT !.stop_offset = b.offset]
  /\ pc' = "rec_append"
  /\ UNCHANGED <<stream, ntok, index, update, ctx, ret, exit_path, entry,
                 lock_calls>>

\* a step the transaction completed on record r
Logged(ix, r, step) == [ix EXCEPT !.records[r].log = Append(@, step)]

\* mail_index_record_append: index->append allocates the record (uid 0) and
\* hands out the uid it will get, or fails
RecordAppend ==
  /\ pc = "rec_append"
  /\ \E ok \in BOOLEAN :
       IF ok
       THEN /\ index' = [index EXCEPT
                           !.records = Append(@, NewRecord(tx.internal_date)),
                           !.next_uid = @ + 1]
            /\ tx' = [tx EXCEPT !.rec = Len(index.records) + 1,
                                !.uid = index.next_uid]
            /\ pc' = "update_begin"
            /\ UNCHANGED <<ret, exit_path>>
       ELSE /\ Return(FALSE, "alloc")
            /\ UNCHANGED <<index, tx>>
  /\ UNCHANGED <<stream, ntok, inbuf, update, ctx, rm, entry, lock_calls>>

\* UpdateBegin writing the offset relative to the buffer's start_offset
UpdateBegin_RelativeLocation ==
  /\ pc = "update_begin"
  /\ update' = [rec |-> tx.rec,
                location |-> tx.abs_start_offset - inbuf.start_offset,
                md5 |-> NoDigest]
  /\ pc' = "narrow"
  /\ UNCHANGED <<stream, ntok, inbuf, index, ctx, tx, rm, ret, exit_path,
                 entry, lock_calls>>

\* update_begin, then update_field_raw(FIELD_TYPE_LOCATION)
UpdateBegin ==
  /\ pc = "update_begin"
  /\ update' = [rec |-> tx.rec, location |-> tx.abs_start_offset,
                md5 |-> NoDigest]
  /\ pc' = "narrow"
  /\ UNCHANGED <<stream, ntok, inbuf, index, ctx, tx, rm, ret, exit_path,
                 entry, lock_calls>>

\* mbox_header_init_context; narrow the buffer to the message and rewind
NarrowBuffer ==
  /\ pc = "narrow"
  /\ ctx' = [state |-> "init", flags |-> {}, md5 |-> <<>>]
  /\ tx' = [tx EXCEPT !.old_size = inbuf.size]
  /\ inbuf' = io_buffer_seek([inbuf EXCEPT !.size = tx.stop_offset],
                             tx.abs_start_offset - inbuf.start_offset)
  /\ pc' = "headers"
  /\ UNCHANGED <<stream, ntok, index, update, rm, ret, exit_path, entry,
                 lock_calls>>

\* mail_index_update_headers: the header collaborator reads the narrowed
\* range, feeds the digest and derives the flags; it leaves the cursor
\* anywhere in the range
UpdateHeaders ==
  /\ pc = "headers"
  /\ LET bytes == SubSeq(stream, inbuf.offset + 1, inbuf.size)
     IN ctx' = [ctx EXCEPT !.flags = HeaderFlags(bytes), !.md5 = bytes]
  /\ \E c \in inbuf.offset..inbuf.size :
       inbuf' = io_buffer_seek(inbuf, c)
  /\ pc' = "restore"
  /\ UNCHANGED <<stream, ntok, index, update, tx, rm, ret, exit_path,
                 entry, lock_calls>>

\* RestoreBuffer with the ceiling left narrowed
RestoreBuffer_KeepsCeiling ==
  /\ pc = "restore"
  /\ inbuf' = io_buffer_seek(inbuf, tx.stop_offset)
  /\ pc' = "save_md5"
  /\ UNCHANGED <<stream, ntok, index, update, ctx, tx, rm, ret, exit_path,
                 entry, lock_calls>>

\* inbuf->size = old_size; io_buffer_seek(inbuf, stop_offset)
RestoreBuffer ==
  /\ pc = "restore"
  /\ inbuf' = io_buffer_seek([inbuf EXCEPT !.size = tx.old_size], tx.stop_offset)
  /\ pc' = "save_md5"
  /\ UNCHANGED <<stream, ntok, index, update, ctx, tx, rm, ret, exit_path,
                 entry, lock_calls>>

\* md5_final, then update_field_raw(FIELD_TYPE_MD5)
SaveMD5 ==
  /\ pc = "save_md5"
  /\ update' = [update EXCEPT !.md5 = md5_final(ctx.md5)]
  /\ pc' = "update_end"
  /\ UNCHANGED <<stream, ntok, inbuf, index, ctx, tx, rm, ret, exit_path,
                 entry, lock_calls>>

\* what a successful update_end writes into the record
Committed(ix, u) ==
  Logged(Logged(Logged(
    [ix EXCEPT !.records[u.rec].location = u.location,
               !.records[u.rec].md5 = u.md5],
    u.rec, "location"), u.rec, "md5"), u.rec, "update_end")

\* rec->msg_flags = ctx.flags; mail_index_mark_flag_changes(...)
FlagsSaved(ix, r, flags) ==
  Logged(Logged([ix EXCEPT !.records[r].msg_flags = flags], r, "flags"),
         r, "flag_changes")

\* UpdateEnd with the flags saved whatever update_end returned
UpdateEnd_FlagsOnFailure ==
  /\ pc = "update_end"
  /\ \E ok \in BOOLEAN :
       IF ok
       THEN /\ index' = FlagsSaved(Committed(index, update), tx.rec, ctx.flags)
            /\ tx' = [tx EXCEPT !.failed = FALSE]
            /\ pc' = "fmsync"
       ELSE /\ index' = FlagsSaved(index, tx.rec, ctx.flags)
            /\ tx' = [tx EXCEPT !.failed = TRUE]
            /\ pc' = "free_ctx"
  /\ update' = NoUpdate
  /\ UNCHANGED <<stream, ntok, inbuf, ctx, rm, ret, exit_path, entry,
                 lock_calls>>

\* UpdateEnd with a failed commit treated as an integrity violation
UpdateEnd_FailureSetsFsck ==
  /\ pc = "update_end"
  /\ \E ok \in BOOLEAN :
       IF ok
       THEN /\ index' = FlagsSaved(Committed(index, update), tx.rec, ctx.flags)
            /\ tx' = [tx EXCEPT !.failed = FALSE]
            /\ pc' = "fmsync"
       ELSE /\ tx' = [tx EXCEPT !.failed = TRUE]
            /\ pc' = "free_ctx"
            /\ index' = SetErrorFsck(index, ErrFromLine)
  /\ update' = NoUpdate
  /\ UNCHANGED <<stream, ntok, inbuf, ctx, rm, ret, exit_path, entry,
                 lock_calls>>

\* UpdateEnd with the uid assigned together with the flags, before the
\* durability barrier
UpdateEnd_UidBeforeBarrier ==
  /\ pc = "update_end"
  /\ \E ok \in BOOLEAN :
       IF ok
       THEN /\ index' = Logged(
                 [FlagsSaved(Committed(index, update), tx.rec, ctx.flags)
                    EXCEPT !.records[tx.rec].uid = tx.uid],
                 tx.rec, "uid")
            /\ tx' = [tx EXCEPT !.failed = FALSE]
            /\ pc' = "fmsync"
       ELSE /\ tx' = [tx EXCEPT !.failed = TRUE]
            /\ pc' = "free_ctx"
            /\ UNCHANGED index
  /\ update' = NoUpdate
  /\ UNCHANGED <<stream, ntok, inbuf, ctx, rm, ret, exit_path, entry,
                 lock_calls>>

\* update_end; when it succeeds, save the message flags
UpdateEnd ==
  /\ pc = "update_end"
  /\ \E ok \in BOOLEAN :
       IF ok
       THEN /\ index' = FlagsSaved(Committed(index, update), tx.rec, ctx.flags)
            /\ tx' = [tx EXCEPT !.failed = FALSE]
            /\ pc' = "fmsync"
       ELSE /\ tx' = [tx EXCEPT !.failed = TRUE]
            /\ pc' = "free_ctx"
            /\ UNCHANGED index
  /\ update' = NoUpdate
  /\ UNCHANGED <<stream, ntok, inbuf, ctx, rm, ret, exit_path, entry,
                 lock_calls>>

\* Fmsync with the result of mail_index_fmsync ignored
Fmsync_IgnoresFailure ==
  /\ pc = "fmsync"
  /\ \E ok \in BOOLEAN :
       index' = Logged(index, tx.rec, IF ok THEN "fmsync" ELSE "fmsync_failed")
  /\ pc' = "set_uid"
  /\ UNCHANGED <<stream, ntok, inbuf, update, ctx, tx, rm, ret, exit_path, entry,
                 lock_calls>>

\* mail_index_fmsync: the durability barrier
Fmsync ==
  /\ pc = "fmsync"
  /\ \E ok \in BOOLEAN :
       IF ok
       THEN /\ index' = Logged(index, tx.rec, "fmsync")
            /\ pc' = "set_uid"
            /\ UNCHANGED <<ret, exit_path>>
       ELSE /\ index' = Logged(index, tx.rec, "fmsync_failed")
            /\ Return(FALSE, "barrier")
  /\ UNCHANGED <<stream, ntok, inbuf, update, ctx, tx, rm, entry,
                 lock_calls>>

\* rec->uid = uid
AssignUid ==
  /\ pc = "set_uid"
  /\ index' = Logged([index EXCEPT !.records[tx.rec].uid = tx.uid],
                     tx.rec, "uid")
  /\ pc' = "free_ctx"
  /\ UNCHANGED <<stream, ntok, inbuf, update, ctx, tx, rm, ret, exit_path,
                 entry, lock_calls>>

\* FreeContext returning TRUE whatever update_end returned
FreeContext_ReturnsTrue ==
  /\ pc = "free_ctx"
  /\ ctx' = [ctx EXCEPT !.state = "freed"]
  /\ pc' = "loop"
  /\ UNCHANGED <<stream, ntok, inbuf, index, update, tx, rm, ret, exit_path,
                 entry, lock_calls>>

\* mbox_header_free_context; return !failed
FreeContext ==
  /\ pc = "free_ctx"
  /\ ctx' = [ctx EXCEPT !.state = "freed"]
  /\ IF tx.failed
     THEN Return(FALSE, "commit")
     ELSE /\ pc' = "loop"
          /\ UNCHANGED <<ret, exit_path>>
  /\ UNCHANGED <<stream, ntok, inbuf, index, update, tx, rm, entry,
                 lock_calls>>

(* ------------------------------------------------------------------ *)
(* Specification                                                        *)
(* ------------------------------------------------------------------ *)
Next ==
  \/ Call
  \/ LoopSkip
  \/ LoopCheck
  \/ FromLinePass
  \/ FromLineCheck
  \/ ReadMessagePass
  \/ ReadMessageEnd
  \/ RecordAppend
  \/ UpdateBegin
  \/ NarrowBuffer
  \/ UpdateHeaders
  \/ RestoreBuffer
  \/ SaveMD5
  \/ UpdateEnd
  \/ Fmsync
  \/ AssignUid
  \/ FreeContext
  \/ CallerCleanup
  \/ Grow

Spec == Init /\ [][Next]_vars

(* ------------------------------------------------------------------ *)
(* The boundary scanner alone: mbox_read_message on every body          *)
(* ------------------------------------------------------------------ *)
\* The steps of a running call.  The engine is single-threaded and
\* synchronous: a call that has been entered keeps taking its next step.
CallStep ==
  \/ LoopSkip
  \/ LoopCheck
  \/ FromLinePass
  \/ FromLineCheck
  \/ ReadMessagePass
  \/ ReadMessageEnd
  \/ RecordAppend
  \/ UpdateBegin
  \/ NarrowBuffer
  \/ UpdateHeaders
  \/ RestoreBuffer
  \/ SaveMD5
  \/ UpdateEnd
  \/ Fmsync
  \/ AssignUid
  \/ FreeContext

FairSpec == Init /\ [][Next]_vars /\ WF_vars(CallStep)

\* mbox_index_append_next has just skipped the separator line "From \n" and
\* calls mbox_read_message; the From-line read left any lookahead buffered
ScanInit ==
  /\ \E k \in 0..MaxScanTokens : \E ts \in [1..k -> ScanTokens] :
       stream = FromA \o Flatten(ts)
  /\ ntok = MaxTokens
  /\ \E n \in 0..(Len(stream) - Len(FromA)) :
       inbuf = [start_offset |-> 0, offset |-> Len(FromA),
                size |-> Len(stream), buffered |-> n]
  /\ index = [records |-> <<>>, next_uid |-> 1, set_flags |-> {},
              error |-> NoError, lock |-> MAIL_LOCK_EXCLUSIVE]
  /\ update = NoUpdate
  /\ ctx = NoCtx
  /\ tx = [NoTx EXCEPT !.internal_date = ioloop_time,
                       !.abs_start_offset = Len(FromA)]
  /\ rm = NoRm
  /\ pc = "scan"
  /\ ret = TRUE
  /\ exit_path = "none"
  /\ entry = [index |-> [index EXCEPT !.lock = MAIL_LOCK_UNLOCK],
              offset |-> 0, size |-> Len(stream), clean |-> TRUE]
  /\ lock_calls = 1

ScanNext ==
  \/ ReadMessagePass
  \/ ReadMessageEnd

ScanSpec == ScanInit /\ [][ScanNext]_vars

(* ------------------------------------------------------------------ *)
(* Properties                                                           *)
(* ------------------------------------------------------------------ *)
Records == 1..Len(index.records)
\* the records the running call allocated
NewRecords == (Len(entry.index.records) + 1)..Len(index.records)

\* step a was completed on the record before step b
Before(log, a, b) ==
  \E i, j \in 1..Len(log) : i < j /\ log[i] = a /\ log[j] = b

Has(log, a) == \E i \in 1..Len(log) : log[i] = a

\* C1: a record has a non-zero uid only if its location and MD5 were
\* written, update_end succeeded, the flags were copied and the durability
\* barrier succeeded, all before the uid was assigned.
C1_UidOnlyAfterBarrier ==
  \A r \in Records :
    LET rec == index.records[r]
    IN rec.uid # 0 =>
         /\ rec.location # NoField
         /\ rec.md5 # NoDigest
         /\ \A step \in {"location", "md5", "update_end", "flags", "fmsync"} :
              Before(rec.log, step, "uid")
         /\ ~Has(rec.log, "fmsync_failed")

C1_Witness ==
  \E r \in Records :
    /\ index.records[r].uid # 0
    /\ index.records[r].msg_flags # {}

\* C2: when the durability barrier fails for a message, the call returns
\* failure, the record keeps uid 0 from then on, and the call processes no
\* later message.
C2_BarrierFailure ==
  \A r \in Records :
    LET rec == index.records[r]
    IN Has(rec.log, "fmsync_failed") =>
         /\ rec.uid = 0
         /\ Before(rec.log, "md5", "fmsync_failed")
         /\ Before(rec.log, "flags", "fmsync_failed")
         /\ r \in NewRecords =>
              /\ pc = "done"
              /\ ret = FALSE
              /\ r = Len(index.records)
              /\ inbuf.offset = tx.stop_offset

\* a record whose barrier failed, still without uid after a later call
\* committed the next message
C2_Witness ==
  \E r, q \in Records :
    /\ r < q
    /\ Has(index.records[r].log, "fmsync_failed")
    /\ index.records[r].uid = 0
    /\ index.records[q].uid # 0

\* C3: when mbox_index_append returns success the cursor is at the ceiling
\* and every record allocated by the call has the non-zero uid that append
\* returned for it.
C3_SuccessIsComplete ==
  (pc = "done" /\ ret = TRUE) =>
    /\ inbuf.offset = inbuf.size
    /\ \A r \in NewRecords :
         /\ index.records[r].uid # 0
         /\ index.records[r].uid = index.records[r].append_uid

C3_Witness ==
  /\ pc = "done"
  /\ ret = TRUE
  /\ Cardinality(NewRecords) >= 2

\* the offsets (cursor values) of the LF of every "\nFrom " that lies in the
\* stream from offset a on, below the ceiling
Separators(a) ==
  {o \in a..(inbuf.size - 6) : SubSeq(stream, o + 1, o + 6) = <<LF>> \o FromLit}

\* the offset at which the message body starts
BodyStart == tx.abs_start_offset - inbuf.start_offset

\* the cursor at the first separator: on its LF, or on the CR right before
\* that LF
BoundaryOffset(a) ==
  LET o == Min(Separators(a))
  IN IF o > 0 /\ stream[o] = CR THEN o - 1 ELSE o

\* C4: mbox_read_message leaves the cursor at the first "\nFrom " of the
\* remaining stream, moved back by one when a CR precedes that LF, for
\* every stream and every split into refills; a "From " that no LF precedes
\* is no boundary.
C4_CursorAtNextSeparator ==
  (pc = "rec_append" /\ Separators(BodyStart) # {}) =>
    /\ inbuf.offset = BoundaryOffset(BodyStart)
    /\ tx.stop_offset = BoundaryOffset(BodyStart)

\* a separator after CR, found beyond a mid-line "From " and more than one
\* retained window away from the start of the body
C4_Witness ==
  /\ pc = "rec_append"
  /\ Separators(BodyStart) # {}
  /\ Min(Separators(BodyStart)) - BodyStart > 8
  /\ stream[Min(Separators(BodyStart))] = CR
  /\ inbuf.offset = Min(Separators(BodyStart)) - 1
  /\ \E o \in BodyStart..(inbuf.offset - 5) :
       SubSeq(stream, o + 1, o + 5) = FromLit

\* the body of a last message: what lies between its start and the ceiling
LastBody == SubSeq(stream, BodyStart + 1, inbuf.size)

\* the end offset that removing exactly the last [CR]LF of the body gives
TrimmedEnd ==
  LET n == Len(LastBody)
  IN IF n >= 1 /\ LastBody[n] = LF
     THEN IF n >= 2 /\ LastBody[n - 1] = CR
          THEN inbuf.size - 2
          ELSE inbuf.size - 1
     ELSE inbuf.size

\* C5: for the last message of the stream mbox_read_message removes exactly
\* the last [CR]LF of the body: the end offset is the stream end minus 2
\* after CR LF, minus 1 after a bare LF, and the stream end itself when the
\* body does not end with LF.
C5_LastMessageTrim ==
  (pc = "rec_append" /\ Separators(BodyStart) = {}) =>
    tx.stop_offset = TrimmedEnd

\* a separator line starts at offset o: the 5-byte literal "From ", and a LF
\* that ends the line below the ceiling
ValidSeparatorAt(o) ==
  /\ o + 5 <= inbuf.size
  /\ SubSeq(stream, o + 1, o + 5) = FromLit
  /\ \E k \in (o + 6)..inbuf.size : stream[k] = LF

\* C6: when the bytes where a message is expected are no separator line (no
\* "From ", no LF ending the line, fewer than 6 bytes), the call returns
\* failure, the FSCK flag is set, an error is reported, and no record is
\* allocated.
C6_BadSeparatorFails ==
  [][(pc = "from_check" /\ ~ValidSeparatorAt(inbuf.offset)) =>
       /\ pc' = "done"
       /\ ret' = FALSE
       /\ MAIL_INDEX_FLAG_FSCK \in index'.set_flags
       /\ index'.error = ErrFromLine
       /\ index'.records = index.records
       /\ index'.next_uid = index.next_uid]_vars

\* the call failed on a "From " that no LF ends, after it had committed a
\* message
C6_Witness ==
  /\ pc = "done"
  /\ exit_path = "fromline"
  /\ ret = FALSE
  /\ MAIL_INDEX_FLAG_FSCK \in index.set_flags
  /\ inbuf.offset + 5 <= inbuf.size
  /\ SubSeq(stream, inbuf.offset + 1, inbuf.offset + 5) = FromLit
  /\ NewRecords # {}

\* the running call met a storage failure: set_lock, update_end or the
\* durability barrier failed
StorageFailure ==
  \/ lock_calls = 1 /\ index.lock # MAIL_LOCK_EXCLUSIVE
  \/ tx.failed
  \/ \E r \in NewRecords : Has(index.records[r].log, "fmsync_failed")

\* C7: a storage failure makes the call return failure with the FSCK flag
\* as it was before the call.
C7_StorageFailureKeepsFlags ==
  (pc = "done" /\ StorageFailure) =>
    /\ ret = FALSE
    /\ index.set_flags = entry.index.set_flags

\* update_end failed in a call on an index whose FSCK flag was already set
C7_Witness ==
  /\ pc = "done"
  /\ tx.failed
  /\ ~ret
  /\ MAIL_INDEX_FLAG_FSCK \in index.set_flags

\* the separator line that ends right before the body starting at offset o
SeparatorLine(o) ==
  LET lfs == {k \in 1..(o - 1) : stream[k] = LF}
      first == IF lfs = {} THEN 1 ELSE (CHOOSE k \in lfs : \A j \in lfs : j <= k) + 1
  IN SubSeq(stream, first, o)

\* the internal_date the separator line before offset o gives
ExpectedDate(o) ==
  LET d == mbox_from_parse_date(SeparatorLine(o), Len(SeparatorLine(o)))
  IN IF d > 0 THEN d ELSE ioloop_time

\* the positions of the transaction at which its record is allocated
RecordAllocated ==
  pc \in {"update_begin", "narrow", "headers", "restore", "save_md5",
          "update_end", "fmsync", "set_uid", "free_ctx"}

InTransaction == pc \in {"scan", "scan_end", "rec_append"} \/ RecordAllocated

\* C8: a record's internal_date is the date parsed from its separator line
\* when that is positive and the current time otherwise; a separator line
\* without a date that parses never fails the call at the From-line.
C8_DateFallback ==
  /\ InTransaction => tx.internal_date = ExpectedDate(BodyStart)
  /\ RecordAllocated =>
       index.records[tx.rec].internal_date = ExpectedDate(BodyStart)
  /\ \A r \in Records :
       index.records[r].location # NoField =>
         index.records[r].internal_date =
           ExpectedDate(index.records[r].location - inbuf.start_offset)
  /\ (pc = "done" /\ exit_path = "fromline") => ~ValidSeparatorAt(inbuf.offset)

\* a committed record of a separator line without a date carries the
\* current time, one of a dated line carries the date
C8_Witness ==
  \E r, q \in Records :
    /\ index.records[r].uid # 0
    /\ index.records[r].internal_date = ioloop_time
    /\ mbox_from_parse_date(
         SeparatorLine(index.records[r].location - inbuf.start_offset), 6) <= 0
    /\ index.records[q].uid # 0
    /\ index.records[q].internal_date = 1
    /\ MAIL_INDEX_FLAG_FSCK \notin index.set_flags

\* C9: the Message Transaction leaves the ceiling as it found it on every
\* exit path, and after header parsing the cursor is the message end offset
\* the boundary scanner found.
C9_CeilingRestored ==
  /\ pc \notin {"idle", "headers", "restore"} => inbuf.size = entry.size
  /\ pc \in {"save_md5", "update_end", "fmsync", "set_uid", "free_ctx"} =>
       inbuf.offset = tx.stop_offset
  /\ (pc = "done" /\ (tx.failed \/ exit_path = "barrier")) =>
       inbuf.offset = tx.stop_offset
  /\ (pc = "loop" /\ ctx.state = "freed") => inbuf.offset = tx.stop_offset

\* a transaction returned success with the ceiling above the message end
\* it had been narrowed to
C9_Witness ==
  /\ pc = "loop"
  /\ ctx.state = "freed"
  /\ inbuf.offset = tx.stop_offset
  /\ tx.stop_offset < inbuf.size
  /\ inbuf.size = entry.size
  /\ tx.stop_offset > BodyStart

\* C10: called with no unread bytes, mbox_index_append returns success
\* without calling set_lock and leaves the index and the stream unchanged.
C10_NoNewData ==
  (pc # "idle" /\ entry.offset = entry.size) =>
    /\ pc = "done"
    /\ ret = TRUE
    /\ lock_calls = 0
    /\ index = entry.index
    /\ inbuf.offset = entry.offset
    /\ inbuf.size = entry.size

\* the fast path taken on an index that holds a message
C10_Witness ==
  /\ pc = "done"
  /\ exit_path = "nodata"
  /\ ret = TRUE
  /\ lock_calls = 0
  /\ Len(index.records) > 0
  /\ inbuf.offset > 0

\* the index without its lock
Unlocked(ix) == [ix EXCEPT !.lock = MAIL_LOCK_UNLOCK]

\* C11: the index is changed (record allocated, field written, update
\* committed, flags changed, uid assigned, FSCK set) only by a call whose
\* set_lock(MAIL_LOCK_EXCLUSIVE) succeeded; the call holds the lock until it
\* has returned, on success and on every failure path; a call whose set_lock
\* failed returns failure with the index and the stream untouched.
C11_MutationsUnderLock ==
  /\ (pc # "idle" /\ Unlocked(index) # Unlocked(entry.index)) =>
       /\ lock_calls = 1
       /\ index.lock = MAIL_LOCK_EXCLUSIVE
  /\ (pc # "idle" /\ lock_calls = 1 /\ exit_path # "lock") =>
       index.lock = MAIL_LOCK_EXCLUSIVE
  /\ (pc = "done" /\ exit_path = "lock") =>
       /\ ret = FALSE
       /\ index = entry.index
       /\ inbuf.offset = entry.offset
       /\ inbuf.buffered = 0
  /\ lock_calls <= 1

\* a call that set the FSCK flag has returned failure and still holds the
\* lock
C11_Witness ==
  /\ pc = "done"
  /\ exit_path = "crlf"
  /\ ~ret
  /\ MAIL_INDEX_FLAG_FSCK \in index.set_flags
  /\ MAIL_INDEX_FLAG_FSCK \notin entry.index.set_flags
  /\ index.lock = MAIL_LOCK_EXCLUSIVE
  /\ Len(index.records) > 0

\* the records whose location was written
Located == {r \in Records : index.records[r].location # NoField}

\* the stream offset of record r's location
OffsetOf(r) == index.records[r].location - inbuf.start_offset

\* offset o is the first byte after a separator line: a line that starts
\* with "From " and whose LF is the byte before o
AfterSeparatorLine(o) ==
  /\ o \in 6..Len(stream)
  /\ stream[o] = LF
  /\ SubSeq(SeparatorLine(o), 1, 5) = FromLit

\* C12: records are created in stream order, within a call and across calls
\* on a growing stream: a record's location is the absolute offset
\* (start_offset + offset) of the first byte after its separator line, later
\* records lie at larger locations, and of two records with uids the one at
\* the smaller location has the smaller uid.
C12_StreamOrder ==
  /\ \A r \in Located : AfterSeparatorLine(OffsetOf(r))
  /\ \A r, q \in Located : r < q => OffsetOf(r) < OffsetOf(q)
  /\ \A r, q \in Records :
       (/\ index.records[r].uid # 0
        /\ index.records[q].uid # 0
        /\ index.records[r].location < index.records[q].location) =>
         index.records[r].uid < index.records[q].uid

\* two records with uids, the second created by a later call on the grown
\* stream
C12_Witness ==
  /\ Len(entry.index.records) = 1
  /\ Len(index.records) = 2
  /\ index.records[1].uid # 0
  /\ index.records[2].uid # 0
  /\ index.records[1].location < index.records[2].location
  /\ index.records[1].uid < index.records[2].uid

\* the call was entered at offset E > 0 where successful calls had left the
\* cursor
Resumed == pc # "idle" /\ entry.clean /\ entry.offset > 0

\* C13: a call entered where successful calls left the cursor (offset E)
\* allocates no record when the stream has not grown, allocates records only
\* for messages that lie after E when it has, and no two records of the
\* index share a location.
C13_IdempotentResumption ==
  /\ (Resumed /\ entry.offset = entry.size) => NewRecords = {}
  /\ Resumed =>
       \A r \in NewRecords \cap Located : OffsetOf(r) > entry.offset
  /\ \A r, q \in Located : r # q => OffsetOf(r) # OffsetOf(q)

\* a resumed call on the grown stream has returned success with a record
\* for the added message next to the record of the earlier call
C13_Witness ==
  /\ Resumed
  /\ pc = "done"
  /\ ret
  /\ entry.index.records # <<>>
  /\ \E r \in NewRecords :
       /\ index.records[r].uid # 0
       /\ OffsetOf(r) > entry.offset

\* the last Message Transaction of the running call returned success and
\* its message ran to the end of the stream
LastMessageDone ==
  /\ ctx.state = "freed"
  /\ ~tx.failed
  /\ tx.rec \in Located
  /\ index.records[tx.rec].location = tx.abs_start_offset
  /\ Separators(BodyStart) = {}

\* C14: a last message that runs to the end of the stream is no error,
\* however the stream ends (LF, CR LF, no line terminator): its record is
\* committed, mbox_index_append returns success and does not set the FSCK
\* flag.
C14_LastMessageNoError ==
  (pc = "done" /\ LastMessageDone) =>
    /\ ret = TRUE
    /\ index.set_flags = entry.index.set_flags
    /\ index.records[tx.rec].uid # 0

\* C15: a record whose update_end did not succeed has no flags copied, no
\* flag-change notification, no barrier and no uid, and the call that met
\* the failure returns failure without setting the FSCK flag; the flags are
\* copied and notified after the successful commit and before the barrier.
C15_CommitFailure ==
  /\ \A r \in Records :
       LET rec == index.records[r]
       IN /\ ~Has(rec.log, "update_end") =>
               /\ rec.msg_flags = {}
               /\ rec.uid = 0
               /\ \A step \in {"flags", "flag_changes", "fmsync",
                                "fmsync_failed", "uid"} : ~Has(rec.log, step)
          /\ Has(rec.log, "flags") =>
               /\ Before(rec.log, "update_end", "flags")
               /\ Before(rec.log, "flags", "flag_changes")
          /\ \A step \in {"fmsync", "fmsync_failed"} :
               Has(rec.log, step) => Before(rec.log, "flag_changes", step)
  /\ (pc \in {"free_ctx", "done"} /\ tx.failed) =>
       /\ tx.rec = Len(index.records)
       /\ ~Has(index.records[tx.rec].log, "update_end")
       /\ index.set_flags = entry.index.set_flags
  /\ (pc = "done" /\ tx.failed) => (ret = FALSE /\ exit_path = "commit")

\* update_end failed for a message whose headers gave flags: the call has
\* returned failure and the record carries none of them
C15_Witness ==
  /\ pc = "done"
  /\ exit_path = "commit"
  /\ ~ret
  /\ ctx.flags # {}
  /\ index.records[tx.rec].msg_flags = {}
  /\ index.records[tx.rec].uid = 0
  /\ MAIL_INDEX_FLAG_FSCK \notin index.set_flags

\* the length of the line terminator ([CR]LF) at the cursor, 0 when the
\* bytes there are none
TerminatorLen ==
  IF inbuf.offset < inbuf.size /\ stream[inbuf.offset + 1] = LF THEN 1
  ELSE IF /\ inbuf.offset + 1 < inbuf.size
          /\ stream[inbuf.offset + 1] = CR
          /\ stream[inbuf.offset + 2] = LF THEN 2
  ELSE 0

\* the unread data is a single CR
LoneCRAtEnd ==
  inbuf.offset + 1 = inbuf.size /\ stream[inbuf.size] = CR

\* the step returns failure for an integrity violation
FailsWithFsck ==
  /\ pc' = "done"
  /\ ret' = FALSE
  /\ MAIL_INDEX_FLAG_FSCK \in index'.set_flags
  /\ index'.error # NoError
  /\ index'.records = index.records
  /\ inbuf'.offset = inbuf.offset

\* no failure has happened in the running call
NoFailureSoFar ==
  /\ exit_path = "none"
  /\ index.set_flags = entry.index.set_flags
  /\ index.error = entry.index.error
  /\ \A r \in NewRecords : ~Has(index.records[r].log, "fmsync_failed")
  /\ tx.failed => pc = "free_ctx"

C17_Terminates ==
  /\ [][/\ (pc = "from_check" /\ pc' = "scan") =>
             inbuf'.offset >= inbuf.offset + 6
        /\ pc \in {"scan", "scan_end"} => inbuf'.offset >= inbuf.offset
        /\ InTransaction' => inbuf'.offset >= BodyStart'
        /\ pc # "idle" => stream' = stream]_vars
  /\ (pc \notin {"idle", "done"}) ~> (pc = "done")

\* a call has returned after the boundary scanner ran through a body to the
\* end of the stream and the terminator it trimmed was skipped
C17_Witness ==
  /\ pc = "done"
  /\ exit_path = "ok"
  /\ NewRecords # {}
  /\ inbuf.offset = inbuf.size
  /\ BodyStart < tx.stop_offset
  /\ tx.stop_offset < inbuf.size

\* One uninterrupted append over the whole stream, from offset p on: the
\* driver loop with every read returning all the data there is and no
\* storage failure.  locs are the locations written so far; the result is
\* whether the append succeeds, and the locations in the order written.
WholeSkip(p) ==
  IF inbuf.start_offset + p = 0 \/ p = Len(stream) THEN p
  ELSE IF stream[p + 1] = LF THEN p + 1
  ELSE IF p + 1 < Len(stream) /\ stream[p + 1] = CR /\ stream[p + 2] = LF
  THEN p + 2
  ELSE -1

\* the end offset mbox_read_message gives the body that starts at offset b
WholeBodyEnd(b) ==
  LET msg == SubSeq(stream, b + 1, Len(stream))
      n == Len(msg)
      i == ScanPass(msg, n, 0)
  IN IF i < n THEN b + i
     ELSE IF n > 0 THEN b + TrimLast(msg, n, n)
     ELSE b

RECURSIVE WholeAppend(_, _)
WholeAppend(p, locs) ==
  LET q == WholeSkip(p)
  IN IF q = -1 THEN [ok |-> FALSE, locs |-> locs]
     ELSE IF q = Len(stream) THEN [ok |-> TRUE, locs |-> locs]
     ELSE LET data == SubSeq(stream, q + 1, Len(stream))
              size == Len(data)
              pos == FindLF(data, size, 0)
          IN IF FromLineNotFound(data, size, pos)
             THEN [ok |-> FALSE, locs |-> locs]
             ELSE WholeAppend(WholeBodyEnd(q + pos + 1),
                              Append(locs, inbuf.start_offset + q + pos + 1))

\* the locations of the records, in the order of their creation
Locations == [r \in Records |-> index.records[r].location]

\* the running call met no failure of set_lock, append, update_end or the
\* durability barrier
NoStorageFailure == exit_path \notin {"lock", "alloc", "commit", "barrier"}

\* the result of the calls so far is that of one append over the whole
\* stream
SameAsWhole ==
  LET whole == WholeAppend(0, <<>>)
  IN /\ ret = whole.ok
     /\ (MAIL_INDEX_FLAG_FSCK \in index.set_flags) = ~whole.ok
     /\ Locations = whole.locs

\* a call that starts on an empty index at offset 0 and meets no storage
\* failure gives the result of WholeAppend, whatever the refills
WholeAppendIsTheCode ==
  (/\ pc = "done"
   /\ entry.offset = 0
   /\ entry.index.records = <<>>
   /\ entry.index.set_flags = {}
   /\ NoStorageFailure) => SameAsWhole

\* C18: splitting an append at a message boundary does not change the
\* result: a call that resumes where successful calls left the cursor, on a
\* stream that has grown by further messages, ends with the outcome
\* (success or failure, FSCK flag) and the sequence of record locations of
\* one append over the whole grown stream.
C18_SplitEqualsWhole ==
  (/\ pc = "done"
   /\ Resumed
   /\ entry.index.records # <<>>
   /\ ValidSeparatorAt(entry.offset)
   /\ NoStorageFailure) => SameAsWhole

\* the positions of a Message Transaction between mbox_header_init_context
\* and mbox_header_free_context
ContextLive ==
  pc \in {"headers", "restore", "save_md5", "update_end", "fmsync", "set_uid",
          "free_ctx"}

\* C19: the header parse context a Message Transaction initialized is
\* released before the transaction returns, on every exit path: outside
\* the transaction's steps between init and free no context is left
\* initialized.
C19_ContextReleased ==
  ~ContextLive => ctx.state # "init"

\* the step is a pass of mbox_read_message that found no separator
PassWithoutMatch == pc = "scan" /\ pc' = "scan" /\ inbuf' # inbuf

\* the number of bytes in the window of the pass the step makes
PassWindow == inbuf'.buffered + (inbuf'.offset - inbuf.offset)

\* the pass keeps the last k bytes of its window (all of a shorter window)
\* buffered as lookback and advances the stream past the rest
Keeps(k) ==
  LET kept == IF PassWindow < k THEN PassWindow ELSE k
  IN /\ rm'.startpos = kept
     /\ inbuf'.buffered = kept
     /\ inbuf'.offset = inbuf.offset + (PassWindow - kept)

\* C20 as claimed: a pass over a window of n bytes that finds no separator
\* retains the last min(n, 6) bytes and advances past the rest.
C20_RetainsSix ==
  [][PassWithoutMatch => Keeps(6)]_vars

\* C20 amended: such a pass retains the last min(n, 7) bytes and advances
\* past the rest, and the retained tail is enough: the cursor never passes
\* the first separator or the CR before it, and the scanner ends with the
\* cursor on that CR, or on the LF when no CR precedes it, however the
\* separator is split over refills.
C20_RetainsSeven ==
  /\ [][PassWithoutMatch => Keeps(7)]_vars
  /\ []((pc \in {"scan", "scan_end"} /\ Separators(BodyStart) # {}) =>
          inbuf.offset <= BoundaryOffset(BodyStart))
  /\ []((pc = "rec_append" /\ Separators(BodyStart) # {}) =>
          inbuf.offset = BoundaryOffset(BodyStart))

\* between two passes the retained tail is a byte and the "\r\nFrom" of a
\* separator whose space the next refill brings; bytes before the tail
\* have been skipped
C20_Witness ==
  /\ pc = "scan"
  /\ rm.startpos = 7
  /\ inbuf.buffered = 7
  /\ inbuf.offset > BodyStart
  /\ SubSeq(io_buffer_get_data(inbuf), 2, 7) = <<CR, LF, "F", "r", "o", "m">>
  /\ inbuf.offset + 7 < inbuf.size
  /\ stream[inbuf.offset + 8] = SP

====
